---- MODULE Spec2Model ----
(***************************************************************************)
(* The on-ledger safety core of vagus: the ANS State Manager, the Vagal    *)
(* Brake, the Capability Issuer, the Afferent Inbox and the Reflex Arc     *)
(* (src/wasm-contracts/cosmwasm/contracts/*/src/lib.rs).                   *)
(*                                                                         *)
(* Every contract handler is one action.  The host runs the handlers of    *)
(* one transaction back to back: a message a handler returns in its        *)
(* Response (the Brake's Issue) is in `inflight` until the host delivers   *)
(* it, and no other transaction starts before.  A handler that returns an  *)
(* error leaves the store as it was (the host drops the writes of a failed *)
(* transaction).  `last` is the response of the handler that ran last.     *)
(***************************************************************************)
EXTENDS Integers, Sequences, FiniteSets, TLC

VARIABLES
    now,                  \* env.block.time.seconds()
    CURRENT_STATE,        \* ans_state_manager
    CURRENT_TONE,
    LAST_STATE_CHANGE,
    changed_at,           \* history: the block time of the latest state change
    NEXT_TOKEN_ID,        \* capability_issuer
    TOKENS,
    OWNERS,
    AUTHORIZED_EXECUTORS,
    REFLEX_ARC,
    GLOBAL_RATE_LIMIT,
    CIRCUIT_BREAKER_THRESHOLD,
    CIRCUIT_BREAKER_TIMEOUT,
    CIRCUIT_BREAKER_RECOVERY,
    RATE_LIMIT_WINDOWS,
    CIRCUIT_BREAKERS,
    EMERGENCY_PAUSED,
    accepted,             \* history: the <<planner, nonce>> of the accepted Issues
    LAST_TRIGGER,         \* reflex_arc
    LATEST_AEP,           \* afferent_inbox
    AUTHORIZED_ATTESTORS,
    active_tokens,        \* vagus-gateway, TokenManager
    inflight,             \* the message the running transaction has yet to deliver
    last                  \* the response (or the error) of the last handler

(***************************************************************************)
(* Bounds of the model.  Times are block seconds; the instantiate          *)
(* parameters that are durations or counts are scaled to the horizon.      *)
(***************************************************************************)
\* the last block time of a run
MaxTime == 3
\* the most tokens a run mints
MaxTokens == 2
\* ans_state_manager InstantiateMsg.min_state_residency
InstMinResidency == 2
\* reflex_arc InstantiateMsg.reflex_cooldown
InstReflexCooldown == 2
\* capability_issuer InstantiateMsg.rate_limit_window_size / rate_limit_max_requests
InstWindowSize == 2
InstMaxRequests == 1
\* capability_issuer InstantiateMsg.circuit_breaker_threshold / _timeout /
\* _recovery of the runs that exercise the breaker
InstBreakerThreshold == 1
InstBreakerTimeout == 2
InstBreakerRecovery == 2

\* InstantiateMsg.safe_threshold / danger_threshold (basis points)
InstSafeThreshold == 8000
InstDangerThreshold == 6000

\* vagus_spec
MAX_DURATION_MS == 30000
MAX_ENERGY_J == 1000

\* capability_issuer::instantiate, the defaults of the breaker parameters
DefaultBreakerThreshold == 5
DefaultBreakerTimeout == 300
DefaultBreakerRecovery == 3

ANSStates == {"SAFE", "DANGER", "SHUTDOWN"}

None == "none"

\* addresses: the five contracts, the DAO, and the accounts that send
Brake == "brake"
ReflexAddr == "reflex"
InboxAddr == "inbox"
Dao == "dao"
Planner == "planner"
Gateway == "gateway"
Executor == "executor1"
Mallory == "mallory"

ExecutorIds == {1, 2}
ActionIds == {"a1", "a2"}

(***************************************************************************)
(* u64 and u128 values are little-endian sequences of 16-bit limbs, so     *)
(* that a product keeps the width the code gives it.                       *)
(***************************************************************************)
Base == 2^16
U64Limbs == 64 \div 16
U128Limbs == 128 \div 16

\* the u64 of a number below Base * Base \div 2
U64(n) == <<n % Base, n \div Base, 0, 0>>
U64Max == <<Base - 1, Base - 1, Base - 1, Base - 1>>

\* `x as u128`
Widen(x, n) == [i \in 1..n |-> IF i <= Len(x) THEN x[i] ELSE 0]

RECURSIVE MulLimbs(_, _, _, _)
\* limbs i.. of x * s (s < 2^14) with the carry into limb i; wraps at Len(x) limbs
MulLimbs(x, s, i, carry) ==
    IF i > Len(x) THEN <<>>
    ELSE LET p == x[i] * s + carry
         IN  <<p % Base>> \o MulLimbs(x, s, i + 1, p \div Base)

RECURSIVE DivLimbs(_, _, _, _)
\* limbs 1..i of x \div k (k < 2^14), rem the remainder of the limbs above i
DivLimbs(x, k, i, rem) ==
    IF i = 0 THEN <<>>
    ELSE LET cur == rem * Base + x[i]
         IN  DivLimbs(x, k, i - 1, cur % k) \o <<cur \div k>>

\* x > m, for a number m below Base * Base \div 2
LimbsGt(x, m) ==
    \/ \E i \in 3..Len(x) : x[i] # 0
    \/ x[2] >= Base \div 2
    \/ x[2] * Base + x[1] > m

(***************************************************************************)
(* ans_state_manager                                                        *)
(***************************************************************************)
MIN_STATE_RESIDENCY == InstMinResidency
SAFE_THRESHOLD == InstSafeThreshold
DANGER_THRESHOLD == InstDangerThreshold

\* the closure `rank` of is_more_conservative
rank(state) ==
    CASE state = "SAFE" -> 0
      [] state = "DANGER" -> 1
      [] state = "SHUTDOWN" -> 2

\* the comparison with its operands exchanged
is_less_conservative(a, b) == rank(a) < rank(b)

is_more_conservative(a, b) == rank(a) > rank(b)

\* a table whose SAFE row falls to SHUTDOWN below half the danger threshold
hysteresis_with_safe_shutdown(current, vti, safe_threshold, danger_threshold) ==
    IF vti >= safe_threshold THEN "SAFE"
    ELSE IF vti < danger_threshold \div 2 THEN "SHUTDOWN"
    ELSE IF current = "SAFE" /\ vti >= danger_threshold THEN "SAFE"
    ELSE IF current = "SHUTDOWN" /\ vti < danger_threshold THEN "SHUTDOWN"
    ELSE "DANGER"

determine_state_with_hysteresis(current, vti, safe_threshold, danger_threshold) ==
    CASE current = "SAFE" ->
            IF vti < danger_threshold THEN "DANGER" ELSE "SAFE"
      [] current = "DANGER" ->
            IF vti >= safe_threshold THEN "SAFE"
            ELSE IF vti < danger_threshold \div 2 THEN "SHUTDOWN"
            ELSE "DANGER"
      [] current = "SHUTDOWN" ->
            IF vti >= safe_threshold THEN "SAFE"
            ELSE IF vti >= danger_threshold THEN "DANGER"
            ELSE "SHUTDOWN"

\* a guard table with an escape action that stays allowed in SHUTDOWN
guard_with_escape_action(state, action_id) ==
    LET scaling_factor ==
            IF state = "SAFE" \/ action_id = "a2" THEN 10000
            ELSE IF state = "DANGER" THEN 5000
            ELSE 0
    IN  [scalingFactor |-> scaling_factor, allowed |-> scaling_factor > 0]

\* Guard { scalingFactor, allowed } of the state; the action id is not read
query_guard_for(state, action_id) ==
    LET scaling_factor ==
            CASE state = "SAFE" -> 10000
              [] state = "DANGER" -> 5000
              [] state = "SHUTDOWN" -> 0
    IN  [scalingFactor |-> scaling_factor, allowed |-> scaling_factor > 0]

\* the residency check of execute_update_tone
residency_gate(last_change, current_time, min_residency) ==
    last_change # 0 /\ current_time < last_change + min_residency

\* the state execute_update_tone settles on
final_state(current, vti, suggested) ==
    LET new_state == determine_state_with_hysteresis(
                        current, vti, SAFE_THRESHOLD, DANGER_THRESHOLD)
    IN  IF is_more_conservative(suggested, new_state) THEN suggested ELSE new_state

update_tone_result(vti) ==
    IF vti > 10000 THEN "InvalidToneValue"
    ELSE IF residency_gate(LAST_STATE_CHANGE, now, MIN_STATE_RESIDENCY)
         THEN "StateChangeTooFrequent"
    ELSE "ok"

ansVars == <<CURRENT_STATE, CURRENT_TONE, LAST_STATE_CHANGE, changed_at>>
issuerVars == <<NEXT_TOKEN_ID, TOKENS, OWNERS, AUTHORIZED_EXECUTORS, REFLEX_ARC,
                GLOBAL_RATE_LIMIT, CIRCUIT_BREAKER_THRESHOLD, CIRCUIT_BREAKER_TIMEOUT,
                CIRCUIT_BREAKER_RECOVERY, RATE_LIMIT_WINDOWS, CIRCUIT_BREAKERS,
                EMERGENCY_PAUSED, accepted>>
reflexVars == <<LAST_TRIGGER>>
inboxVars == <<LATEST_AEP, AUTHORIZED_ATTESTORS>>
gatewayVars == <<active_tokens>>

vars == <<now, ansVars, issuerVars, reflexVars, inboxVars, gatewayVars, inflight,
          last>>

\* a Response without attributes, a call without arguments
NoFields == [none |-> TRUE]

\* what a handler answers: its error, or "ok" with the attributes of its Response
Response(op, sender, res, args, out) ==
    [op |-> op, sender |-> sender, res |-> res, args |-> args,
     out |-> IF res = "ok" THEN out ELSE NoFields]

execute_update_tone(vti, suggested) ==
    LET res == update_tone_result(vti)
        fin == final_state(CURRENT_STATE, vti, suggested)
        state_changed == fin # CURRENT_STATE
    IN  /\ last' = Response("UpdateTone", None, res,
                            [vti |-> vti, suggested |-> suggested],
                            [state |-> fin, state_changed |-> state_changed])
        /\ IF res = "ok"
           THEN /\ CURRENT_STATE' = fin
                /\ LAST_STATE_CHANGE' =
                        IF state_changed THEN now ELSE LAST_STATE_CHANGE
                /\ CURRENT_TONE' = [value |-> vti, timestamp |-> now]
                /\ changed_at' = IF state_changed THEN <<now>> ELSE changed_at
           ELSE UNCHANGED ansVars
        /\ UNCHANGED <<now, issuerVars, reflexVars, inboxVars, gatewayVars, inflight>>

(***************************************************************************)
(* vagal_brake                                                              *)
(***************************************************************************)
\* the guard the Brake queries from the ANS State Manager
brake_guard(action_id) == query_guard_for(CURRENT_STATE, action_id)

\* the product taken in the width of its u64 operand
scaled_limit_u64(value, scaling_factor) ==
    DivLimbs(MulLimbs(value, scaling_factor, 1, 0), 10000, U64Limbs, 0)

\* (value as u128 * scaling_factor as u128) / 10000
scaled_limit(value, scaling_factor) ==
    DivLimbs(MulLimbs(Widen(value, U128Limbs), scaling_factor, 1, 0),
             10000, U128Limbs, 0)

validate_scaled_limits(max_duration_ms, max_energy_j, scaling_factor) ==
    IF LimbsGt(scaled_limit(max_duration_ms, scaling_factor), MAX_DURATION_MS)
    THEN "ANSLimitExceeded"
    ELSE IF LimbsGt(scaled_limit(max_energy_j, scaling_factor), MAX_ENERGY_J)
    THEN "ANSLimitExceeded"
    ELSE "ok"

\* the cap validation alone, whatever the guard allows
caps_only_result(intent) ==
    validate_scaled_limits(intent.max_duration_ms, intent.max_energy_j,
                           brake_guard(intent.action_id).scalingFactor)

\* the checks of execute_issue_with_brake, in the order of the code
issue_with_brake_result(intent) ==
    LET guard == brake_guard(intent.action_id)
    IN  IF ~guard.allowed THEN "ANSBlocked"
        ELSE validate_scaled_limits(intent.max_duration_ms, intent.max_energy_j,
                                    guard.scalingFactor)

\* The handler writes nothing; on success its Response carries the Issue message
\* for the Capability Issuer, with the intent and the submitted hash as received.
execute_issue_with_brake(sender, intent) ==
    LET guard == brake_guard(intent.action_id)
        res == issue_with_brake_result(intent)
    IN  /\ last' = Response("IssueWithBrake", sender, res, intent,
                            [scaling_factor |-> guard.scalingFactor,
                             allowed |-> guard.allowed])
        /\ inflight' = IF res = "ok" THEN <<[sender |-> Brake, msg |-> intent]>>
                       ELSE <<>>
        /\ UNCHANGED <<now, ansVars, issuerVars, reflexVars, inboxVars, gatewayVars>>

(***************************************************************************)
(* capability_issuer                                                        *)
(***************************************************************************)
\* format!("{}_{}", executor_id, hex::encode(&action_id)): one key per pair
breaker_key(executor_id, action_id) == <<executor_id, action_id>>

default_breaker ==
    [state |-> "Closed", failure_count |-> 0, last_failure_time |-> 0,
     success_count |-> 0, next_attempt_time |-> 0]

\* may_load(..).unwrap_or(..)
load_or(map, key, default) == IF key \in DOMAIN map THEN map[key] ELSE default

\* a Map with no key
EmptyMap == [key \in {} |-> 0]

\* save
put(map, key, value) == (key :> value) @@ map

\* [err, cbs]: the verdict, and the breakers as the check leaves them
check_circuit_breaker(cbs, key, current_time) ==
    LET cb == load_or(cbs, key, default_breaker)
    IN  IF cb.state = "Open"
        THEN IF current_time < cb.next_attempt_time
             THEN [err |-> "CircuitBreakerOpen", cbs |-> cbs]
             ELSE [err |-> "ok",
                   cbs |-> put(cbs, key, [cb EXCEPT !.state = "HalfOpen",
                                                    !.success_count = 0])]
        ELSE [err |-> "ok", cbs |-> cbs]

saturating_sub(a, b) == IF a >= b THEN a - b ELSE 0

\* a window that is never pruned
retain_everything(windows, window_start) == windows

\* windows.retain(|&timestamp| timestamp > window_start)
retain_window(windows, window_start) ==
    SelectSeq(windows, LAMBDA timestamp : timestamp > window_start)

\* [err, windows]: the verdict, and the window of the key as the check leaves it
check_rate_limit(rate_limit, all_windows, key, current_time) ==
    LET windows == retain_window(load_or(all_windows, key, <<>>),
                        saturating_sub(current_time, rate_limit.window_size))
    IN  IF Len(windows) >= rate_limit.max_requests
        THEN [err |-> "RateLimited", windows |-> all_windows]
        ELSE [err |-> "ok",
              windows |-> put(all_windows, key, Append(windows, current_time))]

record_circuit_success(cbs, key, recovery_threshold) ==
    LET cb == load_or(cbs, key, default_breaker)
        after ==
            IF cb.state = "HalfOpen"
            THEN IF cb.success_count + 1 >= recovery_threshold
                 THEN [cb EXCEPT !.state = "Closed", !.failure_count = 0,
                                 !.success_count = 0]
                 ELSE [cb EXCEPT !.success_count = cb.success_count + 1]
            ELSE IF cb.state = "Closed"
            THEN [cb EXCEPT !.failure_count = 0]
            ELSE cb
    IN  put(cbs, key, after)

\* an id counter that hands out the same id again
same_token_id(token_id_num) == token_id_num

\* an id counter that leaves a gap
skip_token_id(token_id_num) == token_id_num + 2

\* NEXT_TOKEN_ID.save(.., &(token_id_num + 1))
next_token_id(token_id_num) == token_id_num + 1

\* the checks of execute_issue alone, entered without the pause check of execute
issue_unpaused_result(sender, m) ==
    LET key == breaker_key(m.executor_id, m.action_id)
        breaker == check_circuit_breaker(CIRCUIT_BREAKERS, key, now)
    IN  IF sender \notin AUTHORIZED_EXECUTORS THEN "Unauthorized"
        ELSE IF now < m.not_before \/ now > m.not_after THEN "IntentExpired"
        ELSE IF breaker.err # "ok" THEN breaker.err
        ELSE check_rate_limit(GLOBAL_RATE_LIMIT, RATE_LIMIT_WINDOWS, key, now).err

\* the checks of execute, with a time window that is open at both ends
issue_open_window_result(sender, m) ==
    LET key == breaker_key(m.executor_id, m.action_id)
        breaker == check_circuit_breaker(CIRCUIT_BREAKERS, key, now)
    IN  IF EMERGENCY_PAUSED THEN "ContractPaused"
        ELSE IF sender \notin AUTHORIZED_EXECUTORS THEN "Unauthorized"
        ELSE IF now <= m.not_before \/ now >= m.not_after THEN "IntentExpired"
        ELSE IF breaker.err # "ok" THEN breaker.err
        ELSE check_rate_limit(GLOBAL_RATE_LIMIT, RATE_LIMIT_WINDOWS, key, now).err

\* the pause check of execute, then the checks of execute_issue, in order
issue_result(sender, m) ==
    LET key == breaker_key(m.executor_id, m.action_id)
        breaker == check_circuit_breaker(CIRCUIT_BREAKERS, key, now)
    IN  IF EMERGENCY_PAUSED THEN "ContractPaused"
        ELSE IF sender \notin AUTHORIZED_EXECUTORS THEN "Unauthorized"
        ELSE IF now < m.not_before \/ now > m.not_after THEN "IntentExpired"
        ELSE IF breaker.err # "ok" THEN breaker.err
        ELSE check_rate_limit(GLOBAL_RATE_LIMIT, RATE_LIMIT_WINDOWS, key, now).err

\* OWNED_TOKENS, written here and never read, is {<<OWNERS[t], t>>}
\* an Issue whose rejection keeps what check_circuit_breaker has saved
execute_issue_keeping_writes(sender, m) ==
    LET key == breaker_key(m.executor_id, m.action_id)
        res == issue_result(sender, m)
        breaker == check_circuit_breaker(CIRCUIT_BREAKERS, key, now)
        rate == check_rate_limit(GLOBAL_RATE_LIMIT, RATE_LIMIT_WINDOWS, key, now)
        token_id_num == NEXT_TOKEN_ID
        token_meta ==
            [tokenId |-> token_id_num, executorId |-> m.executor_id,
             actionId |-> m.action_id, scaledLimitsHash |-> m.scaled_limits_hash,
             issuedAt |-> now, expiresAt |-> m.expires_at,
             revoked |-> FALSE, revokedAt |-> 0]
    IN  /\ res = "ok" => NEXT_TOKEN_ID <= MaxTokens
        /\ last' = Response("Issue", sender, res, m, [token_id |-> token_id_num])
        /\ IF res = "ok"
           THEN /\ RATE_LIMIT_WINDOWS' = rate.windows
                /\ NEXT_TOKEN_ID' = next_token_id(token_id_num)
                /\ TOKENS' = put(TOKENS, token_id_num, token_meta)
                /\ OWNERS' = put(OWNERS, token_id_num, m.planner)
                /\ CIRCUIT_BREAKERS' =
                        record_circuit_success(breaker.cbs, key,
                                               CIRCUIT_BREAKER_RECOVERY)
                /\ accepted' = accepted \cup {<<m.planner, m.nonce>>}
                /\ UNCHANGED <<AUTHORIZED_EXECUTORS, REFLEX_ARC, GLOBAL_RATE_LIMIT,
                               CIRCUIT_BREAKER_THRESHOLD, CIRCUIT_BREAKER_TIMEOUT,
                               CIRCUIT_BREAKER_RECOVERY, EMERGENCY_PAUSED>>
           ELSE /\ CIRCUIT_BREAKERS' =
                        IF res = "RateLimited" THEN breaker.cbs
                        ELSE CIRCUIT_BREAKERS
                /\ UNCHANGED <<NEXT_TOKEN_ID, TOKENS, OWNERS, AUTHORIZED_EXECUTORS,
                               REFLEX_ARC, GLOBAL_RATE_LIMIT,
                               CIRCUIT_BREAKER_THRESHOLD, CIRCUIT_BREAKER_TIMEOUT,
                               CIRCUIT_BREAKER_RECOVERY, RATE_LIMIT_WINDOWS,
                               EMERGENCY_PAUSED, accepted>>
        /\ UNCHANGED <<now, ansVars, reflexVars, inboxVars, gatewayVars>>

execute_issue(sender, m) ==
    LET key == breaker_key(m.executor_id, m.action_id)
        res == issue_result(sender, m)
        breaker == check_circuit_breaker(CIRCUIT_BREAKERS, key, now)
        rate == check_rate_limit(GLOBAL_RATE_LIMIT, RATE_LIMIT_WINDOWS, key, now)
        token_id_num == NEXT_TOKEN_ID
        token_meta ==
            [tokenId |-> token_id_num, executorId |-> m.executor_id,
             actionId |-> m.action_id, scaledLimitsHash |-> m.scaled_limits_hash,
             issuedAt |-> now, expiresAt |-> m.expires_at,
             revoked |-> FALSE, revokedAt |-> 0]
    IN  /\ res = "ok" => NEXT_TOKEN_ID <= MaxTokens
        /\ last' = Response("Issue", sender, res, m, [token_id |-> token_id_num])
        /\ IF res = "ok"
           THEN /\ RATE_LIMIT_WINDOWS' = rate.windows
                /\ NEXT_TOKEN_ID' = next_token_id(token_id_num)
                /\ TOKENS' = put(TOKENS, token_id_num, token_meta)
                /\ OWNERS' = put(OWNERS, token_id_num, m.planner)
                /\ CIRCUIT_BREAKERS' =
                        record_circuit_success(breaker.cbs, key,
                                               CIRCUIT_BREAKER_RECOVERY)
                /\ accepted' = accepted \cup {<<m.planner, m.nonce>>}
                /\ UNCHANGED <<AUTHORIZED_EXECUTORS, REFLEX_ARC, GLOBAL_RATE_LIMIT,
                               CIRCUIT_BREAKER_THRESHOLD, CIRCUIT_BREAKER_TIMEOUT,
                               CIRCUIT_BREAKER_RECOVERY, EMERGENCY_PAUSED>>
           ELSE UNCHANGED issuerVars
        /\ UNCHANGED <<now, ansVars, reflexVars, inboxVars, gatewayVars>>

\* a Revoke that does not look at its caller
revoke_by_anyone_result(sender, token_id) ==
    IF EMERGENCY_PAUSED THEN "ContractPaused"
    ELSE IF token_id \notin DOMAIN TOKENS THEN "StdNotFound"
    ELSE IF TOKENS[token_id].revoked THEN "TokenAlreadyRevoked"
    ELSE "ok"

\* the pause check of execute, then the checks of execute_revoke, in order;
\* TOKENS.load of an id that is not stored is the store's own not-found error
revoke_result(sender, token_id) ==
    IF EMERGENCY_PAUSED THEN "ContractPaused"
    ELSE IF token_id \notin DOMAIN TOKENS THEN "StdNotFound"
    ELSE IF TOKENS[token_id].revoked THEN "TokenAlreadyRevoked"
    ELSE IF ~(OWNERS[token_id] = sender \/ REFLEX_ARC = sender)
    THEN "UnauthorizedRevocation"
    ELSE "ok"

execute_revoke(sender, token_id, reason) ==
    LET res == revoke_result(sender, token_id)
    IN  /\ last' = Response("Revoke", sender, res,
                            [token_id |-> token_id, reason |-> reason],
                            [token_id |-> token_id, revoked_at |-> now])
        /\ IF res = "ok"
           THEN /\ TOKENS' = [TOKENS EXCEPT ![token_id].revoked = TRUE,
                                            ![token_id].revokedAt = now]
                /\ UNCHANGED <<NEXT_TOKEN_ID, OWNERS, AUTHORIZED_EXECUTORS,
                               REFLEX_ARC, GLOBAL_RATE_LIMIT,
                               CIRCUIT_BREAKER_THRESHOLD, CIRCUIT_BREAKER_TIMEOUT,
                               CIRCUIT_BREAKER_RECOVERY, RATE_LIMIT_WINDOWS,
                               CIRCUIT_BREAKERS, EMERGENCY_PAUSED, accepted>>
           ELSE UNCHANGED issuerVars
        /\ UNCHANGED <<now, ansVars, reflexVars, inboxVars, gatewayVars, inflight>>

\* governance handlers that let every sender through
governance_open_result(sender) ==
    IF EMERGENCY_PAUSED THEN "ContractPaused" ELSE "ok"

\* the pause check of execute, then the DAO check that opens every governance
\* handler
governance_result(sender) ==
    IF EMERGENCY_PAUSED THEN "ContractPaused"
    ELSE IF sender # Dao THEN "Unauthorized"
    ELSE "ok"

set_emergency_paused(op, sender, paused) ==
    LET res == governance_result(sender)
    IN  /\ last' = Response(op, sender, res, NoFields, NoFields)
        /\ IF res = "ok"
           THEN /\ EMERGENCY_PAUSED' = paused
                /\ UNCHANGED <<NEXT_TOKEN_ID, TOKENS, OWNERS, AUTHORIZED_EXECUTORS,
                               REFLEX_ARC, GLOBAL_RATE_LIMIT,
                               CIRCUIT_BREAKER_THRESHOLD, CIRCUIT_BREAKER_TIMEOUT,
                               CIRCUIT_BREAKER_RECOVERY, RATE_LIMIT_WINDOWS,
                               CIRCUIT_BREAKERS, accepted>>
           ELSE UNCHANGED issuerVars
        /\ UNCHANGED <<now, ansVars, reflexVars, inboxVars, gatewayVars, inflight>>

execute_emergency_pause(sender) ==
    set_emergency_paused("EmergencyPause", sender, TRUE)

execute_emergency_unpause(sender) ==
    set_emergency_paused("EmergencyUnpause", sender, FALSE)

execute_set_reflex_arc(sender, reflex_arc) ==
    LET res == governance_result(sender)
    IN  /\ last' = Response("SetReflexArc", sender, res,
                            [reflex_arc |-> reflex_arc], NoFields)
        /\ IF res = "ok"
           THEN /\ REFLEX_ARC' = reflex_arc
                /\ UNCHANGED <<NEXT_TOKEN_ID, TOKENS, OWNERS, AUTHORIZED_EXECUTORS,
                               GLOBAL_RATE_LIMIT, CIRCUIT_BREAKER_THRESHOLD,
                               CIRCUIT_BREAKER_TIMEOUT, CIRCUIT_BREAKER_RECOVERY,
                               RATE_LIMIT_WINDOWS, CIRCUIT_BREAKERS,
                               EMERGENCY_PAUSED, accepted>>
           ELSE UNCHANGED issuerVars
        /\ UNCHANGED <<now, ansVars, reflexVars, inboxVars, gatewayVars, inflight>>

execute_set_rate_limit(sender, window_size, max_requests) ==
    LET res == governance_result(sender)
    IN  /\ last' = Response("SetRateLimit", sender, res,
                            [window_size |-> window_size,
                             max_requests |-> max_requests], NoFields)
        /\ IF res = "ok"
           THEN /\ GLOBAL_RATE_LIMIT' = [window_size |-> window_size,
                                         max_requests |-> max_requests]
                /\ UNCHANGED <<NEXT_TOKEN_ID, TOKENS, OWNERS, AUTHORIZED_EXECUTORS,
                               REFLEX_ARC, CIRCUIT_BREAKER_THRESHOLD,
                               CIRCUIT_BREAKER_TIMEOUT, CIRCUIT_BREAKER_RECOVERY,
                               RATE_LIMIT_WINDOWS, CIRCUIT_BREAKERS,
                               EMERGENCY_PAUSED, accepted>>
           ELSE UNCHANGED issuerVars
        /\ UNCHANGED <<now, ansVars, reflexVars, inboxVars, gatewayVars, inflight>>

execute_set_circuit_breaker_params(sender, threshold, timeout, recovery) ==
    LET res == governance_result(sender)
    IN  /\ last' = Response("SetCircuitBreakerParams", sender, res,
                            [threshold |-> threshold, timeout |-> timeout,
                             recovery |-> recovery], NoFields)
        /\ IF res = "ok"
           THEN /\ CIRCUIT_BREAKER_THRESHOLD' = threshold
                /\ CIRCUIT_BREAKER_TIMEOUT' = timeout
                /\ CIRCUIT_BREAKER_RECOVERY' = recovery
                /\ UNCHANGED <<NEXT_TOKEN_ID, TOKENS, OWNERS, AUTHORIZED_EXECUTORS,
                               REFLEX_ARC, GLOBAL_RATE_LIMIT, RATE_LIMIT_WINDOWS,
                               CIRCUIT_BREAKERS, EMERGENCY_PAUSED, accepted>>
           ELSE UNCHANGED issuerVars
        /\ UNCHANGED <<now, ansVars, reflexVars, inboxVars, gatewayVars, inflight>>

\* an IsValid for which a token is still valid at the block time it expires at
query_is_valid_inclusive(token_id) ==
    IF token_id \notin DOMAIN TOKENS THEN FALSE
    ELSE ~TOKENS[token_id].revoked /\ TOKENS[token_id].expiresAt >= now

\* IsValid { token_id } at the current block time
query_is_valid(token_id) ==
    IF token_id \notin DOMAIN TOKENS THEN FALSE
    ELSE ~TOKENS[token_id].revoked /\ TOKENS[token_id].expiresAt > now

\* the query entry point answers IsValid; it writes nothing
query_is_valid_msg(token_id) ==
    /\ last' = Response("IsValid", None, "ok", [token_id |-> token_id],
                        [valid |-> query_is_valid(token_id)])
    /\ UNCHANGED <<now, ansVars, issuerVars, reflexVars, inboxVars, gatewayVars, inflight>>

\* ActiveTokensOf { executor_id }: the placeholder answers with no token
query_active_tokens_of(executor_id) == <<>>

(***************************************************************************)
(* reflex_arc                                                               *)
(***************************************************************************)
AFFerent_INBOX == InboxAddr
REFLEX_COOLDOWN == InstReflexCooldown

\* the placeholder list of trigger_capability_revocation
PlaceholderTokens == <<1, 2, 3>>

\* [count, messages]: the Revoke messages are built and dropped, the handlers'
\* Responses carry none of them, and the count is the length of the placeholder
trigger_capability_revocation(executor_id) ==
    [count |-> Len(PlaceholderTokens), messages |-> <<>>]

\* a Reflex Arc without a cooldown
never_in_cooldown(last_trigger, cooldown, current_time) == FALSE

in_cooldown(last_trigger, cooldown, current_time) ==
    current_time < last_trigger + cooldown

\* an OnAEP that takes every sender for the Inbox
execute_on_aep_from_anyone(sender, executor_id, should_trigger) ==
    LET cooling == in_cooldown(LAST_TRIGGER, REFLEX_COOLDOWN, now)
        fanout == trigger_capability_revocation(executor_id)
        triggers == ~cooling /\ should_trigger
    IN  /\ last' = Response("OnAEP", sender, "ok", [executor_id |-> executor_id],
                        IF cooling THEN [action |-> "on_aep_cooldown"]
                        ELSE IF ~should_trigger THEN [action |-> "on_aep_no_trigger"]
                        ELSE [action |-> "reflex_triggered",
                              executor_id |-> executor_id,
                              triggered_at |-> now,
                              revoked_count |-> fanout.count])
        /\ LAST_TRIGGER' = IF triggers THEN now ELSE LAST_TRIGGER
        /\ inflight' = IF triggers THEN fanout.messages ELSE <<>>
        /\ UNCHANGED <<now, ansVars, issuerVars, inboxVars, gatewayVars>>

\* should_trigger is what analyze_metrics_for_danger drew: rand::random::<u8>() < 25,
\* whatever the two metrics hashes are
execute_on_aep(sender, executor_id, should_trigger) ==
    LET res == IF sender # AFFerent_INBOX THEN "Unauthorized" ELSE "ok"
        cooling == in_cooldown(LAST_TRIGGER, REFLEX_COOLDOWN, now)
        fanout == trigger_capability_revocation(executor_id)
        triggers == res = "ok" /\ ~cooling /\ should_trigger
    IN  /\ last' = Response("OnAEP", sender, res, [executor_id |-> executor_id],
                        IF cooling THEN [action |-> "on_aep_cooldown"]
                        ELSE IF ~should_trigger THEN [action |-> "on_aep_no_trigger"]
                        ELSE [action |-> "reflex_triggered",
                              executor_id |-> executor_id,
                              triggered_at |-> now,
                              revoked_count |-> fanout.count])
        /\ LAST_TRIGGER' = IF triggers THEN now ELSE LAST_TRIGGER
        /\ inflight' = IF triggers THEN fanout.messages ELSE <<>>
        /\ UNCHANGED <<now, ansVars, issuerVars, inboxVars, gatewayVars>>

\* no check of the sender
execute_manual_trigger(sender, executor_id) ==
    LET res == IF in_cooldown(LAST_TRIGGER, REFLEX_COOLDOWN, now)
               THEN "InvalidInput" ELSE "ok"
        fanout == trigger_capability_revocation(executor_id)
    IN  /\ last' = Response("ManualTrigger", sender, res,
                            [executor_id |-> executor_id],
                            [action |-> "manual_reflex_triggered",
                             executor_id |-> executor_id,
                             revoked_count |-> fanout.count,
                             triggered_at |-> now])
        /\ LAST_TRIGGER' = IF res = "ok" THEN now ELSE LAST_TRIGGER
        /\ inflight' = IF res = "ok" THEN fanout.messages ELSE <<>>
        /\ UNCHANGED <<now, ansVars, issuerVars, inboxVars, gatewayVars>>

(***************************************************************************)
(* afferent_inbox                                                           *)
(***************************************************************************)
\* A Binary is modelled by its length.  hashes is <<state_root_sha256,
\* state_root_keccak, metrics_hash_sha256, metrics_hash_keccak>>.
\* a PostAEP that takes hashes of any length
post_aep_any_length_result(sender, hashes) ==
    IF sender \notin AUTHORIZED_ATTESTORS THEN "UnauthorizedAttestor" ELSE "ok"

post_aep_result(sender, hashes) ==
    IF sender \notin AUTHORIZED_ATTESTORS THEN "UnauthorizedAttestor"
    ELSE IF \E i \in 1..4 : hashes[i] # 32 THEN "InvalidInput"
    ELSE "ok"

\* LATEST_AEP is one slot for all executors (<<>> before the first save); the
\* Response carries no message
execute_post_aep(sender, executor_id, hashes) ==
    LET res == post_aep_result(sender, hashes)
        aep == [executorId |-> executor_id, hashes |-> hashes, timestamp |-> now]
    IN  /\ last' = Response("PostAEP", sender, res,
                            [executor_id |-> executor_id, hashes |-> hashes],
                            [executor_id |-> executor_id, timestamp |-> now])
        /\ LATEST_AEP' = IF res = "ok" THEN <<aep>> ELSE LATEST_AEP
        /\ UNCHANGED <<now, ansVars, issuerVars, reflexVars, AUTHORIZED_ATTESTORS,
                       gatewayVars, inflight>>

\* no check of the sender; the list is stored as received
execute_set_authorized_attestors(sender, attestors) ==
    /\ last' = Response("SetAuthorizedAttestors", sender, "ok",
                        [attestors |-> attestors],
                        [attestor_count |-> Cardinality(attestors)])
    /\ AUTHORIZED_ATTESTORS' = attestors
    /\ UNCHANGED <<now, ansVars, issuerVars, reflexVars, LATEST_AEP, gatewayVars,
                   inflight>>

\* LatestAEP { executor_id }: the executor id is not read
query_latest_aep(executor_id) == LATEST_AEP

(***************************************************************************)
(* vagus-gateway, token_manager                                             *)
(***************************************************************************)
\* the CapabilityToken that holds the fields of a TokenMeta of the ledger
CapabilityToken(meta) ==
    [token_id |-> meta.tokenId, executor_id |-> meta.executorId,
     action_id |-> meta.actionId, scaled_limits_hash |-> meta.scaledLimitsHash,
     issued_at |-> meta.issuedAt, expires_at |-> meta.expiresAt,
     revoked |-> meta.revoked]

\* tokens.iter().position(|t| t.token_id == token_id), 0 for None
position(tokens, token_id) ==
    IF \E i \in 1..Len(tokens) : tokens[i].token_id = token_id
    THEN CHOOSE i \in 1..Len(tokens) :
            /\ tokens[i].token_id = token_id
            /\ \A j \in 1..(i - 1) : tokens[j].token_id # token_id
    ELSE 0

\* the entries of the map in which the search for token_id ends.  The runs
\* add a token under the executor the ledger gives it, so that an id is under
\* one entry at most and the order in which the HashMap is visited is of no
\* consequence.
holders(map, token_id) ==
    { e \in DOMAIN map : position(map[e], token_id) # 0 }

add_token(map, token) ==
    put(map, token.executor_id,
        Append(load_or(map, token.executor_id, <<>>), token))

\* [found, map]
revoke_token(map, token_id) ==
    IF holders(map, token_id) = {} THEN [found |-> FALSE, map |-> map]
    ELSE LET e == CHOOSE e \in holders(map, token_id) : TRUE
             pos == position(map[e], token_id)
         IN  [found |-> TRUE,
              map |-> [map EXCEPT ![e][pos].revoked = TRUE]]

is_token_valid(map, token_id, current_time) ==
    IF holders(map, token_id) = {} THEN FALSE
    ELSE LET e == CHOOSE e \in holders(map, token_id) : TRUE
             token == map[e][position(map[e], token_id)]
         IN  ~token.revoked /\ current_time <= token.expires_at

\* tokens.retain(..) for every entry, then the entries left empty are dropped
cleanup_expired(map, current_time) ==
    LET retained ==
            [e \in DOMAIN map |->
                SelectSeq(map[e], LAMBDA token : current_time <= token.expires_at)]
    IN  [e \in { x \in DOMAIN map : retained[x] # <<>> } |-> retained[e]]

(***************************************************************************)
(* time                                                                     *)
(***************************************************************************)
Tick ==
    /\ now < MaxTime
    /\ now' = now + 1
    /\ last' = Response("Tick", None, "ok", NoFields, NoFields)
    /\ UNCHANGED <<ansVars, issuerVars, reflexVars, inboxVars, gatewayVars, inflight>>

(***************************************************************************)
(* instantiate                                                              *)
(***************************************************************************)
\* ans_state_manager::instantiate
InitANS ==
    /\ CURRENT_STATE \in ANSStates
    /\ LAST_STATE_CHANGE = 0
    /\ changed_at = <<>>
    /\ CURRENT_TONE = [value |-> 7500, timestamp |-> 0]

\* the lists of authorized executors the runs instantiate the issuer with
ExecutorLists == {{Brake}, {Brake, Executor}}

\* capability_issuer::instantiate with the breaker parameters of the message;
\* breakers is the set of the maps CIRCUIT_BREAKERS starts from
InitIssuerWith(threshold, timeout, recovery, breakers) ==
    /\ AUTHORIZED_EXECUTORS \in ExecutorLists
    /\ NEXT_TOKEN_ID = 1
    /\ TOKENS = EmptyMap
    /\ OWNERS = EmptyMap
    /\ REFLEX_ARC = ReflexAddr
    /\ GLOBAL_RATE_LIMIT = [window_size |-> InstWindowSize,
                            max_requests |-> InstMaxRequests]
    /\ CIRCUIT_BREAKER_THRESHOLD = threshold
    /\ CIRCUIT_BREAKER_TIMEOUT = timeout
    /\ CIRCUIT_BREAKER_RECOVERY = recovery
    /\ RATE_LIMIT_WINDOWS = EmptyMap
    /\ CIRCUIT_BREAKERS \in breakers
    /\ EMERGENCY_PAUSED = FALSE
    /\ accepted = {}

\* capability_issuer::instantiate with the defaults of the breaker parameters
InitIssuer ==
    InitIssuerWith(DefaultBreakerThreshold, DefaultBreakerTimeout,
                   DefaultBreakerRecovery, {EmptyMap})

\* reflex_arc::instantiate
InitReflex == LAST_TRIGGER = 0

\* afferent_inbox::instantiate
InitInbox ==
    /\ LATEST_AEP = <<>>
    /\ AUTHORIZED_ATTESTORS = {Gateway}

\* TokenManager::new
InitGateway == active_tokens = EmptyMap

\* the contracts around the issuer, and the gateway
InitOthers ==
    /\ now = 0
    /\ InitANS
    /\ InitReflex
    /\ InitInbox
    /\ InitGateway
    /\ inflight = <<>>
    /\ last = Response("instantiate", None, "ok", NoFields, NoFields)

Init == InitOthers /\ InitIssuer

\* the Brake alone may call Issue, and the breaker has small parameters
InitBreaker ==
    /\ InitOthers
    /\ InitIssuerWith(InstBreakerThreshold, InstBreakerTimeout,
                      InstBreakerRecovery, {EmptyMap})
    /\ AUTHORIZED_EXECUTORS = {Brake}

\* the deployment in which the Brake alone may call Issue
InitBrakeOnly == Init /\ AUTHORIZED_EXECUTORS = {Brake}

(***************************************************************************)
(* the inputs of the runs                                                   *)
(***************************************************************************)
\* the scaled-limits hash of §6, an injective function of its four arguments
H(action_id, scaled_duration, scaled_energy, scaling_factor) ==
    <<action_id, scaled_duration, scaled_energy, scaling_factor>>

\* the hash a planner submits for an intent when it expects the factor s
expected_hash(action_id, max_duration_ms, max_energy_j, s) ==
    H(action_id, scaled_limit(max_duration_ms, s), scaled_limit(max_energy_j, s), s)

Intent(executor_id, action_id, window, dur, energy, planner, nonce, s, expires) ==
    [executor_id |-> executor_id, action_id |-> action_id,
     not_before |-> window[1], not_after |-> window[2],
     max_duration_ms |-> dur, max_energy_j |-> energy,
     planner |-> planner, nonce |-> nonce,
     scaled_limits_hash |-> expected_hash(action_id, dur, energy, s),
     expires_at |-> expires]

\* a tone that moves SAFE to DANGER and DANGER to SHUTDOWN, and one that moves
\* back to SAFE
VtiCore == {2000, 9000}

\* each side of every comparison of the hysteresis, and one value out of range
VtiEdges == {0, 2999, 3000, 5999, 6000, 7999, 8000, 10000, 10001}

\* 10000 ms and 500 J pass the caps under every factor; the hash is the one
\* for the factor of SAFE or of DANGER; the token outlives the run; one intent
\* is for the other action
IntentsCore ==
    { Intent(1, "a1", <<0, MaxTime>>, U64(10000), U64(500), Planner, 1, s,
             MaxTime + 1) : s \in {10000, 5000} }
    \cup { Intent(1, "a2", <<0, MaxTime>>, U64(10000), U64(500), Planner, 1,
                  10000, MaxTime + 1) }

\* one intent for each executor and action
IntentsKeys ==
    { Intent(e, a, <<0, MaxTime>>, U64(10000), U64(500), Planner, 1, 10000,
             MaxTime + 1) : e \in ExecutorIds, a \in ActionIds }

\* the least u64 whose product with 5000, and with 10000, passes 2^64:
\* 3689348814741911
WrapValue == <<8599, 30094, 7025, 13>>

\* each side of the caps under both factors, and the ends of the u64 range
WideDurations ==
    {U64(d) : d \in {0, 30000, 30001, 60000, 60001, 60002}} \cup {WrapValue, U64Max}
WideEnergies ==
    {U64(e) : e \in {0, 1000, 1001, 2000, 2001, 2002}} \cup {WrapValue, U64Max}

\* intents over the u64 range, all with the hash of the nominal intent
IntentsWide ==
    LET nominal == Intent(1, "a1", <<0, MaxTime>>, U64(10000), U64(500),
                          Planner, 1, 10000, MaxTime + 1)
    IN  { [nominal EXCEPT !.max_duration_ms = d] : d \in WideDurations }
        \cup { [nominal EXCEPT !.max_energy_j = e] : e \in WideEnergies }

\* one intent for each executor
IntentsExecutors == { i \in IntentsKeys : i.action_id = "a1" }

(***************************************************************************)
(* the transactions.  A transaction starts only when the one before it has *)
(* delivered its messages.                                                  *)
(***************************************************************************)
\* a host that starts a transaction while another has messages to deliver
TxAnytime == TRUE

TxIdle == inflight = <<>>

UpdateToneOf(vtis) ==
    /\ TxIdle
    /\ \E vti \in vtis, suggested \in ANSStates :
            execute_update_tone(vti, suggested)

\* a run dispatches an Issue only while it may still mint
IssueWithBrakeOf(senders, intents) ==
    /\ TxIdle
    /\ \E sender \in senders, intent \in intents :
            /\ issue_with_brake_result(intent) = "ok" => NEXT_TOKEN_ID <= MaxTokens
            /\ execute_issue_with_brake(sender, intent)

IssueOf(senders, intents) ==
    /\ TxIdle
    /\ \E sender \in senders, intent \in intents : execute_issue(sender, intent)
    /\ UNCHANGED inflight

RevokeOf(senders) ==
    /\ TxIdle
    /\ \E sender \in senders, token_id \in 1..MaxTokens + 1 :
            execute_revoke(sender, token_id, "OWNER_REVOCATION")

UpdateTone == UpdateToneOf(VtiCore)

IssueWithBrake == IssueWithBrakeOf({Planner}, IntentsCore)

\* the host hands the Brake's message to the Capability Issuer
DeliverIssue ==
    /\ inflight # <<>>
    /\ execute_issue(Head(inflight).sender, Head(inflight).msg)
    /\ inflight' = Tail(inflight)

Advance == TxIdle /\ Tick

\* the admission path: the ANS State Manager, the Brake and the Issuer behind it
Next ==
    \/ UpdateTone
    \/ IssueWithBrake
    \/ DeliverIssue
    \/ Advance

Spec == InitBrakeOnly /\ [][Next]_vars

\* the Issuer with the accounts that call it: the Brake for a planner, an
\* executor, an account without any role
IssueWithBrakeExecutors == IssueWithBrakeOf({Planner}, IntentsExecutors)

Issue == IssueOf({Executor, Mallory}, IntentsKeys)

Revoke == RevokeOf({Planner, Mallory, ReflexAddr})

NextIssuer ==
    \/ IssueWithBrakeExecutors
    \/ DeliverIssue
    \/ Issue
    \/ Revoke
    \/ Advance

SpecIssuer == Init /\ [][NextIssuer]_vars

\* the emergency pause of the Issuer, with Issue sent directly and by the Brake
EmergencyPause ==
    /\ TxIdle
    /\ \E sender \in {Dao, Mallory} : execute_emergency_pause(sender)

EmergencyUnpause ==
    /\ TxIdle
    /\ \E sender \in {Dao, Mallory} : execute_emergency_unpause(sender)

IssueDirect == IssueOf({Executor}, IntentsCore)

NextPause ==
    \/ IssueWithBrake
    \/ DeliverIssue
    \/ IssueDirect
    \/ EmergencyPause
    \/ EmergencyUnpause
    \/ Advance

SpecPause == Init /\ [][NextPause]_vars

\* Issue through the Brake of intents whose time window starts after block
\* time 0 and ends before the last block time
IntentsWindow ==
    { Intent(1, "a1", w, U64(10000), U64(500), Planner, 1, 10000, MaxTime + 1) :
        w \in {<<1, MaxTime - 1>>, <<1, 1>>, <<MaxTime - 1, 1>>} }

IssueWithBrakeWindow == IssueWithBrakeOf({Planner}, IntentsWindow)

NextWindow ==
    \/ IssueWithBrakeWindow
    \/ DeliverIssue
    \/ Advance

SpecWindow == InitBrakeOnly /\ [][NextWindow]_vars

\* the governance messages of the Issuer, from the DAO and from a stranger
GovernanceSenders == {Dao, Mallory}

SetReflexArc ==
    /\ TxIdle
    /\ \E sender \in GovernanceSenders, reflex_arc \in {ReflexAddr, Mallory} :
            execute_set_reflex_arc(sender, reflex_arc)

SetRateLimit ==
    /\ TxIdle
    /\ \E sender \in GovernanceSenders,
          window_size \in {InstWindowSize, InstWindowSize + 1},
          max_requests \in {InstMaxRequests, InstMaxRequests + 1} :
            execute_set_rate_limit(sender, window_size, max_requests)

SetCircuitBreakerParams ==
    /\ TxIdle
    /\ \E sender \in GovernanceSenders,
          p \in { <<DefaultBreakerThreshold, DefaultBreakerTimeout,
                    DefaultBreakerRecovery>>,
                  <<InstBreakerThreshold, InstBreakerTimeout,
                    InstBreakerRecovery>> } :
            execute_set_circuit_breaker_params(sender, p[1], p[2], p[3])

NextGovernance ==
    \/ SetReflexArc
    \/ SetRateLimit
    \/ SetCircuitBreakerParams
    \/ EmergencyPause
    \/ EmergencyUnpause

SpecGovernance == InitBrakeOnly /\ [][NextGovernance]_vars

\* the counter of token ids: Issue of one key sent by the Brake, and Revoke
\* by the owner
RevokeOwner == RevokeOf({Planner})

IssueWithBrakeOneKey ==
    IssueWithBrakeOf({Planner}, { i \in IntentsCore : i.action_id = "a2" })

NextTokenIds ==
    \/ IssueWithBrakeOneKey
    \/ DeliverIssue
    \/ RevokeOwner
    \/ Advance

SpecTokenIds == InitBrakeOnly /\ [][NextTokenIds]_vars

\* IsValid of tokens that expire within the block times of the run
IntentsExpiring ==
    { Intent(1, "a2", <<0, MaxTime>>, U64(10000), U64(500), Planner, 1, 10000,
             expires) : expires \in {1, MaxTime} }

IssueWithBrakeExpiring == IssueWithBrakeOf({Planner}, IntentsExpiring)

IsValid ==
    /\ TxIdle
    /\ \E token_id \in 1..MaxTokens + 1 : query_is_valid_msg(token_id)

NextValid ==
    \/ IssueWithBrakeExpiring
    \/ DeliverIssue
    \/ RevokeOwner
    \/ IsValid
    \/ Advance

SpecValid == InitBrakeOnly /\ [][NextValid]_vars

\* the gateway beside the ledger: it adds the tokens the ledger holds, marks
\* ids revoked and cleans up at the block time
AddToken ==
    /\ TxIdle
    /\ \E token_id \in DOMAIN TOKENS :
        LET token == CapabilityToken(TOKENS[token_id])
        IN  /\ Len(load_or(active_tokens, token.executor_id, <<>>)) < MaxTokens
            /\ active_tokens' = add_token(active_tokens, token)
            /\ last' = Response("add_token", Gateway, "ok",
                                [token_id |-> token_id], NoFields)
    /\ UNCHANGED <<now, ansVars, issuerVars, reflexVars, inboxVars, inflight>>

RevokeToken ==
    /\ TxIdle
    /\ \E token_id \in 1..MaxTokens :
        LET revoked == revoke_token(active_tokens, token_id)
        IN  /\ active_tokens' = revoked.map
            /\ last' = Response("revoke_token", Gateway, "ok",
                                [token_id |-> token_id],
                                [found |-> revoked.found])
    /\ UNCHANGED <<now, ansVars, issuerVars, reflexVars, inboxVars, inflight>>

CleanupExpired ==
    /\ TxIdle
    /\ active_tokens' = cleanup_expired(active_tokens, now)
    /\ last' = Response("cleanup_expired", Gateway, "ok",
                        [current_time |-> now], NoFields)
    /\ UNCHANGED <<now, ansVars, issuerVars, reflexVars, inboxVars, inflight>>

NextGateway ==
    \/ IssueWithBrakeExpiring
    \/ DeliverIssue
    \/ RevokeOwner
    \/ AddToken
    \/ RevokeToken
    \/ CleanupExpired
    \/ Advance

\* instantiated in the state SAFE, in which the Brake lets every intent through
InitSafe == InitBrakeOnly /\ CURRENT_STATE = "SAFE"

SpecGateway == InitSafe /\ [][NextGateway]_vars

\* Revoke by the owner, the Reflex Arc and a stranger, of tokens of one key,
\* while the DAO registers another Reflex Arc or pauses the Issuer
RegisterReflexArc ==
    /\ TxIdle
    /\ \E reflex_arc \in {ReflexAddr, Mallory} :
            execute_set_reflex_arc(Dao, reflex_arc)

PauseByDao ==
    /\ TxIdle
    /\ execute_emergency_pause(Dao)

NextRevoke ==
    \/ IssueWithBrakeOneKey
    \/ DeliverIssue
    \/ Revoke
    \/ RegisterReflexArc
    \/ PauseByDao
    \/ Advance

SpecRevoke == InitBrakeOnly /\ [][NextRevoke]_vars

\* the reflex path: the Inbox, the Reflex Arc and the tokens of the Issuer
OnAEP ==
    /\ TxIdle
    /\ \E sender \in {InboxAddr, Mallory}, e \in ExecutorIds,
          should_trigger \in BOOLEAN :
            execute_on_aep(sender, e, should_trigger)

ManualTrigger ==
    /\ TxIdle
    /\ \E sender \in {Gateway}, e \in ExecutorIds :
            execute_manual_trigger(sender, e)

PostAEP ==
    /\ TxIdle
    /\ \E sender \in {Gateway, Mallory}, e \in ExecutorIds,
          hashes \in {<<32, 32, 32, 32>>, <<32, 32, 31, 32>>} :
            execute_post_aep(sender, e, hashes)

NextReflex ==
    \/ IssueWithBrakeExecutors
    \/ DeliverIssue
    \/ PostAEP
    \/ OnAEP
    \/ ManualTrigger
    \/ Advance

SpecReflex == InitBrakeOnly /\ [][NextReflex]_vars

\* error paths: tones, Issue of the key of a stored Open breaker through the
\* Brake, and a rate limit the DAO sets to no request at all
IssueWithBrakeStoredKey ==
    IssueWithBrakeOf({Planner},
                     { i \in IntentsKeys :
                         i.executor_id = 1 /\ i.action_id = "a1" })

LimitToZero ==
    /\ TxIdle
    /\ execute_set_rate_limit(Dao, InstWindowSize, 0)

NextAtomic ==
    \/ UpdateTone
    \/ IssueWithBrakeStoredKey
    \/ DeliverIssue
    \/ LimitToZero
    \/ Advance

\* ManualTrigger sent by a stranger as well
ManualTriggerAnyone ==
    /\ TxIdle
    /\ \E sender \in {Gateway, Mallory}, e \in ExecutorIds :
            execute_manual_trigger(sender, e)

NextManual ==
    \/ IssueWithBrakeOneKey
    \/ DeliverIssue
    \/ OnAEP
    \/ ManualTriggerAnyone
    \/ Advance

SpecManual == InitBrakeOnly /\ [][NextManual]_vars

\* the Inbox alone: PostAEP with each hash too short or too long, and the
\* list of attestors set by the account that instantiated the Inbox and by a
\* stranger
HashLengths ==
    {<<32, 32, 32, 32>>}
        \cup { [i \in 1..4 |-> IF i = k THEN n ELSE 32] :
                    k \in 1..4, n \in {31, 33} }

PostAEPLengths ==
    /\ TxIdle
    /\ \E sender \in {Gateway, Mallory}, e \in ExecutorIds,
          hashes \in HashLengths :
            execute_post_aep(sender, e, hashes)

SetAuthorizedAttestors ==
    /\ TxIdle
    /\ \E sender \in {Dao, Mallory},
          attestors \in {{Gateway}, {Gateway, Mallory}, {}} :
            execute_set_authorized_attestors(sender, attestors)

NextInbox ==
    \/ PostAEPLengths
    \/ SetAuthorizedAttestors
    \/ Advance

SpecInbox == InitBrakeOnly /\ [][NextInbox]_vars

\* the cooldown of the Reflex Arc, with tokens of one key in the Issuer
NextCooldown ==
    \/ IssueWithBrakeOneKey
    \/ DeliverIssue
    \/ OnAEP
    \/ ManualTrigger
    \/ Advance

SpecCooldown == InitBrakeOnly /\ [][NextCooldown]_vars

\* the Brake with limits over the whole u64 range, at one block time: the
\* caps do not read the time
IssueWithBrakeWide == IssueWithBrakeOf({Planner}, IntentsWide)

NextBrake ==
    \/ UpdateTone
    \/ IssueWithBrakeWide
    \/ DeliverIssue

SpecBrake == InitBrakeOnly /\ [][NextBrake]_vars

\* the thresholds instantiate accepts (safe > danger, safe <= 10000) with
\* danger > 0: the least ones, odd and even danger thresholds, the defaults
\* and the greatest ones
ThresholdPairs ==
    { p \in {1, 2, 3, 4, 5999, InstDangerThreshold, InstSafeThreshold, 9999, 10000}
            \X {2, 3, 4, 5, 6000, InstSafeThreshold, 10000} : p[1] < p[2] }

\* each side of every comparison of the table for the thresholds, and the ends
\* of the range of a tone
VtiAround(safe_threshold, danger_threshold) ==
    { v \in {0, danger_threshold \div 2 - 1, danger_threshold \div 2,
             danger_threshold - 1, danger_threshold, safe_threshold - 1,
             safe_threshold, 10000} : v \in 0..10000 }

\* determine_state_with_hysteresis applied to one input
ApplyHysteresis ==
    \E current \in ANSStates, p \in ThresholdPairs :
        \E vti \in VtiAround(p[2], p[1]) :
            /\ last' = Response("determine_state_with_hysteresis", None, "ok",
                    [current |-> current, vti |-> vti,
                     safe_threshold |-> p[2], danger_threshold |-> p[1]],
                    [state |-> determine_state_with_hysteresis(
                                    current, vti, p[2], p[1])])
            /\ UNCHANGED <<now, ansVars, issuerVars, reflexVars, inboxVars, gatewayVars,
                           inflight>>

NextHysteresis == ApplyHysteresis

SpecHysteresis == InitBrakeOnly /\ [][NextHysteresis]_vars

\* the validation of ans_state_manager::instantiate
instantiate_result(msg) ==
    IF msg.safe_threshold <= msg.danger_threshold \/ msg.safe_threshold > 10000
    THEN "InvalidInput"
    ELSE "ok"

\* the thresholds of an InstantiateMsg: the least u64 values, the defaults and
\* each side of the bound 10000
InstantiateThresholds ==
    {0, 1, 2, InstDangerThreshold, InstSafeThreshold, 10000, 10001}

\* ans_state_manager::instantiate applied to one message; out holds what it
\* saves in SAFE_THRESHOLD and DANGER_THRESHOLD
Instantiate ==
    \E safe \in InstantiateThresholds, danger \in InstantiateThresholds,
       initial_state \in ANSStates :
        LET msg == [initial_state |-> initial_state,
                    min_state_residency |-> InstMinResidency,
                    safe_threshold |-> safe, danger_threshold |-> danger]
        IN  /\ last' = Response("ans_state_manager::instantiate", None,
                                instantiate_result(msg), msg,
                                [SAFE_THRESHOLD |-> msg.safe_threshold,
                                 DANGER_THRESHOLD |-> msg.danger_threshold])
            /\ UNCHANGED <<now, ansVars, issuerVars, reflexVars, inboxVars, gatewayVars,
                           inflight>>

NextInstantiate == Instantiate

SpecInstantiate == InitBrakeOnly /\ [][NextInstantiate]_vars

\* A breaker as it is after `threshold` failures at block time 0: Open until
\* the timeout has passed, with a count of successes left from before.  No
\* handler stores such a breaker; the runs that start from one show what the
\* checks of execute_issue do with it.
OpenBreakers ==
    { [state |-> "Open", failure_count |-> InstBreakerThreshold,
       last_failure_time |-> 0, success_count |-> n,
       next_attempt_time |-> InstBreakerTimeout] : n \in {0, 1} }

InitBreakerStored ==
    /\ InitOthers
    /\ InitIssuerWith(InstBreakerThreshold, InstBreakerTimeout,
                      InstBreakerRecovery,
                      { put(EmptyMap, breaker_key(1, "a1"), cb) : cb \in OpenBreakers })
    /\ AUTHORIZED_EXECUTORS = {Brake}

\* the Issuer behind the Brake with a breaker of small parameters
NextBreaker ==
    \/ IssueWithBrake
    \/ DeliverIssue
    \/ Advance

SpecBreaker == InitBreaker /\ [][NextBreaker]_vars

\* the same steps from a stored Open breaker
SpecBreakerStored == InitBreakerStored /\ [][NextBreaker]_vars

\* the error paths, started from the stored Open breaker
SpecAtomic == InitBreakerStored /\ [][NextAtomic]_vars

\* the ANS State Manager alone, with every edge of the hysteresis
UpdateToneANS == UpdateToneOf(VtiEdges)

NextANS == UpdateToneANS \/ Advance

SpecANS == InitBrakeOnly /\ [][NextANS]_vars

(***************************************************************************)
(* C1  I1, SHUTDOWN safety: between transactions, while the ANS state is   *)
(* SHUTDOWN no token is valid (not revoked and expiresAt > now), also a    *)
(* token that was minted while the state was SAFE or DANGER.               *)
(***************************************************************************)
C1_ShutdownNoValidToken ==
    (TxIdle /\ CURRENT_STATE = "SHUTDOWN")
        => \A t \in DOMAIN TOKENS : ~query_is_valid(t)

(***************************************************************************)
(* C2  P5/I3, reflex fan-out: when OnAEP for executor e answers            *)
(* reflex_triggered, every token of e that was valid at entry is revoked   *)
(* and no longer valid at exit, and revoked_count is the number of tokens  *)
(* of e that were valid at entry.                                          *)
(***************************************************************************)
ActiveAtEntry(e) ==
    { t \in DOMAIN TOKENS : TOKENS[t].executorId = e /\ query_is_valid(t) }

C2_ReflexFanOut ==
    [][ (/\ last'.op = "OnAEP"
         /\ last'.res = "ok"
         /\ last'.out.action = "reflex_triggered")
        => /\ \A t \in ActiveAtEntry(last'.args.executor_id) :
                    TOKENS'[t].revoked /\ ~query_is_valid(t)'
           /\ last'.out.revoked_count
                = Cardinality(ActiveAtEntry(last'.args.executor_id)) ]_vars

\* the call of the UpdateTone that has just answered, and the state it
\* computes from the state it found
UpdateToneStep == last'.op = "UpdateTone"
ToneResult == final_state(CURRENT_STATE, last'.args.vti, last'.args.suggested)

(***************************************************************************)
(* C3  Conservative moves bypass the residency gate: an UpdateTone with    *)
(* vti <= 10000 whose resulting state is strictly more conservative than   *)
(* the current state succeeds and changes the state, whatever the time     *)
(* since the last state change.                                            *)
(***************************************************************************)
C3_ConservativeBypass ==
    [][ (/\ UpdateToneStep
         /\ last'.args.vti <= 10000
         /\ rank(ToneResult) > rank(CURRENT_STATE))
        => /\ last'.res = "ok"
           /\ CURRENT_STATE' = ToneResult ]_vars

(***************************************************************************)
(* C4  P1/I6, minimum residency: a state change that follows an earlier    *)
(* state change by less than min_state_residency seconds moves to a        *)
(* strictly more conservative state; calls at time 0 are included.         *)
(***************************************************************************)
C4_MinimumResidency ==
    [][ (CURRENT_STATE' # CURRENT_STATE /\ changed_at # <<>>)
        => \/ now >= Head(changed_at) + MIN_STATE_RESIDENCY
           \/ rank(CURRENT_STATE') > rank(CURRENT_STATE) ]_vars

\* the more conservative of two states in the order SAFE < DANGER < SHUTDOWN
ConservativeOrder == <<"SAFE", "DANGER", "SHUTDOWN">>
Position(state) == CHOOSE i \in 1..3 : ConservativeOrder[i] = state
MoreConservativeOf(a, b) == IF Position(a) >= Position(b) THEN a ELSE b

(***************************************************************************)
(* C10  I7, conservativeness override: an accepted UpdateTone sets the     *)
(* state to the more conservative of the hysteresis result f(current, vti) *)
(* and the suggested state; a suggested state that is not strictly more    *)
(* conservative than f(current, vti) leaves the result f(current, vti).    *)
(***************************************************************************)
C10_ConservativeOverride ==
    [][ (UpdateToneStep /\ last'.res = "ok")
        => LET f == determine_state_with_hysteresis(
                        CURRENT_STATE, last'.args.vti,
                        SAFE_THRESHOLD, DANGER_THRESHOLD)
               suggested == last'.args.suggested
           IN  /\ last'.args.vti \in 0..10000
               /\ CURRENT_STATE' = MoreConservativeOf(f, suggested)
               /\ last'.out.state = CURRENT_STATE'
               /\ Position(suggested) <= Position(f) => CURRENT_STATE' = f ]_vars

\* a tone of 10000 with the suggestion SHUTDOWN has moved the state to SHUTDOWN
C10_Witness ==
    /\ last.op = "UpdateTone"
    /\ last.res = "ok"
    /\ last.args = [vti |-> 10000, suggested |-> "SHUTDOWN"]
    /\ last.out = [state |-> "SHUTDOWN", state_changed |-> TRUE]
    /\ CURRENT_STATE = "SHUTDOWN"

\* the IssueWithBrake that has just answered, and the guard of its action
IssueWithBrakeStep == last'.op = "IssueWithBrake"
GuardAtEntry == query_guard_for(CURRENT_STATE, last'.args.action_id)

\* the step mints a token
Mints == NEXT_TOKEN_ID' # NEXT_TOKEN_ID \/ DOMAIN TOKENS' # DOMAIN TOKENS

(***************************************************************************)
(* C5  IssueWithBrake fails with ANSBlocked and mints no token whenever    *)
(* the guard for the intent's action is not allowed; in SHUTDOWN (reached  *)
(* by tones from SAFE through DANGER) this is every IssueWithBrake, for    *)
(* any action id.                                                          *)
(***************************************************************************)
C5_BlockedWhenNotAllowed ==
    [][ /\ (IssueWithBrakeStep /\ ~GuardAtEntry.allowed)
            => /\ last'.res = "ANSBlocked"
               /\ inflight' = <<>>
               /\ ~Mints
        /\ (IssueWithBrakeStep /\ CURRENT_STATE = "SHUTDOWN")
            => last'.res = "ANSBlocked" ]_vars

\* an IssueWithBrake for the second action was blocked in the state SHUTDOWN
\* that a tone of 2000 had led to
C5_Witness ==
    /\ last.op = "IssueWithBrake"
    /\ last.res = "ANSBlocked"
    /\ last.args.action_id = "a2"
    /\ CURRENT_STATE = "SHUTDOWN"
    /\ CURRENT_TONE.value = 2000
    /\ changed_at # <<>>
    /\ TOKENS = EmptyMap

C9_AdmitAndIssueAtomic ==
    [][ (last'.op = "Issue" /\ last'.sender = Brake /\ Mints)
        => /\ inflight # <<>>
           /\ last.op = "IssueWithBrake"
           /\ last.res = "ok"
           /\ last.args = last'.args
           /\ last.out.scaling_factor = GuardAtEntry.scalingFactor
           /\ GuardAtEntry.allowed
           /\ CURRENT_STATE' = CURRENT_STATE ]_vars

\* the second token was minted via the Brake in the state DANGER
C9_Witness ==
    /\ last.op = "Issue"
    /\ last.sender = Brake
    /\ last.res = "ok"
    /\ CURRENT_STATE = "DANGER"
    /\ DOMAIN TOKENS = {1, 2}
    /\ TOKENS[2].issuedAt = now
    /\ inflight = <<>>

(***************************************************************************)
(* C8  The Vagal Brake is the sole path to Issue: a token is minted only   *)
(* by the Issue that an IssueWithBrake delegated in the same transaction   *)
(* after its guard and cap checks passed, and an Issue sent by a caller    *)
(* outside authorizedExecutors fails with Unauthorized and mints nothing.  *)
(***************************************************************************)
C8_BrakeSolePath ==
    [][ /\ Mints
            => /\ last'.op = "Issue"
               /\ last'.sender = Brake
               /\ inflight # <<>>
               /\ last.op = "IssueWithBrake"
               /\ last.res = "ok"
               /\ last.args = last'.args
        /\ (last'.op = "Issue" /\ last'.sender \notin AUTHORIZED_EXECUTORS)
            => (last'.res = "Unauthorized" /\ ~Mints) ]_vars

\* the greatest value whose scaled limit floor(value * s / 10000) is within cap
GreatestAdmitted(cap, s) == ((cap + 1) * 10000 - 1) \div s

\* cap * 10000 / s, the bound on the unscaled value
UnscaledBound(cap, s) == (cap * 10000) \div s

(***************************************************************************)
(* C7  P7, absolute caps: under an allowed guard with scaling factor s the *)
(* Brake admits an intent exactly when floor(maxDurationMs * s / 10000)    *)
(* <= MAX_DURATION_MS and floor(maxEnergyJ * s / 10000) <= MAX_ENERGY_J,   *)
(* that is when maxDurationMs <= floor((MAX_DURATION_MS * 10000 + 9999)    *)
(* / s) and maxEnergyJ <= floor((MAX_ENERGY_J * 10000 + 9999) / s), and    *)
(* rejects every other intent with ANSLimitExceeded, for all u64 limits.   *)
(***************************************************************************)
C7_AbsoluteCaps ==
    [][ (IssueWithBrakeStep /\ GuardAtEntry.allowed)
        => LET s == GuardAtEntry.scalingFactor
               admitted ==
                    /\ ~LimbsGt(last'.args.max_duration_ms,
                                GreatestAdmitted(MAX_DURATION_MS, s))
                    /\ ~LimbsGt(last'.args.max_energy_j,
                                GreatestAdmitted(MAX_ENERGY_J, s))
           IN  IF admitted
               THEN last'.res = "ok" /\ inflight' # <<>>
               ELSE last'.res = "ANSLimitExceeded" /\ inflight' = <<>> ]_vars

\* in DANGER a duration of 60001 ms, which scales to 30000 ms, was admitted
C7_Witness ==
    /\ last.op = "IssueWithBrake"
    /\ last.res = "ok"
    /\ CURRENT_STATE = "DANGER"
    /\ last.out.scaling_factor = 5000
    /\ last.args.max_duration_ms = U64(60001)

\* C7 as stated: the Brake admits exactly when maxDurationMs <=
\* MAX_DURATION_MS * 10000 / s and maxEnergyJ <= MAX_ENERGY_J * 10000 / s
C7_AsStated ==
    [][ (IssueWithBrakeStep /\ GuardAtEntry.allowed)
        => LET s == GuardAtEntry.scalingFactor
               admitted ==
                    /\ ~LimbsGt(last'.args.max_duration_ms,
                                UnscaledBound(MAX_DURATION_MS, s))
                    /\ ~LimbsGt(last'.args.max_energy_j,
                                UnscaledBound(MAX_ENERGY_J, s))
           IN  IF admitted
               THEN last'.res = "ok"
               ELSE last'.res = "ANSLimitExceeded" ]_vars

(***************************************************************************)
(* C11  Hysteresis table: for thresholds 0 < D < S <= 10000 and a tone in  *)
(* [0, 10000], f(current, vti, S, D) is, from SAFE: DANGER iff vti < D,    *)
(* else SAFE (never SHUTDOWN); from DANGER: SAFE iff vti >= S, SHUTDOWN    *)
(* iff vti < D div 2, else DANGER; from SHUTDOWN: SAFE iff vti >= S,       *)
(* DANGER iff D <= vti < S, else SHUTDOWN.                                 *)
(***************************************************************************)
C11_HysteresisTable ==
    last.op = "determine_state_with_hysteresis"
    => LET current == last.args.current
           vti == last.args.vti
           S == last.args.safe_threshold
           D == last.args.danger_threshold
           next == last.out.state
       IN  /\ 0 < D /\ D < S /\ S <= 10000 /\ vti \in 0..10000
           /\ current = "SAFE"
                => /\ next = "DANGER" <=> vti < D
                   /\ next = "SAFE" <=> vti >= D
                   /\ next # "SHUTDOWN"
           /\ current = "DANGER"
                => /\ next = "SAFE" <=> vti >= S
                   /\ next = "SHUTDOWN" <=> 2 * vti + 1 < D
                   /\ next = "DANGER" <=> (2 * vti + 1 >= D /\ vti < S)
           /\ current = "SHUTDOWN"
                => /\ next = "SAFE" <=> vti >= S
                   /\ next = "DANGER" <=> (D <= vti /\ vti < S)
                   /\ next = "SHUTDOWN" <=> vti < D

\* from SAFE a tone below half the danger threshold gave DANGER
C11_Witness ==
    /\ last.op = "determine_state_with_hysteresis"
    /\ last.args.current = "SAFE"
    /\ last.args.danger_threshold = InstDangerThreshold
    /\ last.args.vti = InstDangerThreshold \div 2 - 1
    /\ last.out.state = "DANGER"

\* the default guard table
GuardTable ==
    [SAFE |-> [scalingFactor |-> 10000, allowed |-> TRUE],
     DANGER |-> [scalingFactor |-> 5000, allowed |-> TRUE],
     SHUTDOWN |-> [scalingFactor |-> 0, allowed |-> FALSE]]

(***************************************************************************)
(* C12  GuardFor is a function of the current ANS state alone: at every    *)
(* time and for every action id SAFE gives (10000, allowed), DANGER gives  *)
(* (5000, allowed) and SHUTDOWN gives (0, not allowed); the scaling factor *)
(* is in [0, 10000] and allowed holds exactly when it is positive; the     *)
(* guard an admitted IssueWithBrake reports is the one of the table.       *)
(***************************************************************************)
C12_GuardForTable ==
    /\ \A a \in ActionIds :
        LET guard == query_guard_for(CURRENT_STATE, a)
        IN  /\ guard = GuardTable[CURRENT_STATE]
            /\ guard.scalingFactor \in 0..10000
            /\ guard.allowed <=> guard.scalingFactor > 0
    /\ (last.op = "IssueWithBrake" /\ last.res = "ok")
        => /\ last.out.scaling_factor = GuardTable[CURRENT_STATE].scalingFactor
           /\ last.out.allowed = GuardTable[CURRENT_STATE].allowed

\* after block time 0, in DANGER, an IssueWithBrake for the second action was
\* admitted with the factor 5000
C12_Witness ==
    /\ last.op = "IssueWithBrake"
    /\ last.res = "ok"
    /\ last.args.action_id = "a2"
    /\ CURRENT_STATE = "DANGER"
    /\ last.out = [scaling_factor |-> 5000, allowed |-> TRUE]
    /\ now > 0

(***************************************************************************)
(* C13  An UpdateTone with vti <= 10000 whose resulting state equals the   *)
(* current state never fails with StateChangeTooFrequent, however short    *)
(* the time since the last state change: it succeeds, stores the tone      *)
(* (value = vti, timestamp = now) and leaves currentState and              *)
(* lastStateChange unchanged.                                              *)
(***************************************************************************)
C13_SameStateNeverTooFrequent ==
    [][ (/\ UpdateToneStep
         /\ last'.args.vti <= 10000
         /\ ToneResult = CURRENT_STATE)
        => /\ last'.res = "ok"
           /\ CURRENT_TONE' = [value |-> last'.args.vti, timestamp |-> now]
           /\ CURRENT_STATE' = CURRENT_STATE
           /\ LAST_STATE_CHANGE' = LAST_STATE_CHANGE ]_vars

\* the Issue that has just answered
IssueStep == last'.op = "Issue"

(***************************************************************************)
(* C14  I4/P3, monotonic token ids: the ids are 1, 2, 3, ... in the order  *)
(* of the successful Issues; a successful Issue gets the id one greater    *)
(* than the previous successful Issue, an id that no token has, and a      *)
(* rejected Issue consumes no id; no other call moves the counter.         *)
(***************************************************************************)
C14_MonotonicTokenIds ==
    [][ /\ (IssueStep /\ last'.res = "ok")
            => /\ last'.out.token_id = Cardinality(DOMAIN TOKENS) + 1
               /\ last'.out.token_id \notin DOMAIN TOKENS
               /\ DOMAIN TOKENS' = DOMAIN TOKENS \cup {last'.out.token_id}
               /\ TOKENS'[last'.out.token_id].tokenId = last'.out.token_id
               /\ NEXT_TOKEN_ID' = last'.out.token_id + 1
        /\ ~(IssueStep /\ last'.res = "ok")
            => /\ NEXT_TOKEN_ID' = NEXT_TOKEN_ID
               /\ DOMAIN TOKENS' = DOMAIN TOKENS
        /\ DOMAIN TOKENS' = 1..(NEXT_TOKEN_ID' - 1) ]_vars

\* after a revocation of token 1 and a rejected Issue, an Issue minted token 2
C14_Witness ==
    /\ last.op = "Issue"
    /\ last.res = "ok"
    /\ last.out.token_id = 2
    /\ DOMAIN TOKENS = {1, 2}
    /\ TOKENS[1].revoked
    /\ NEXT_TOKEN_ID = 3

(***************************************************************************)
(* C15  I5/P4, nonce uniqueness: no two accepted Issues carry the same     *)
(* (planner, nonce); an intent that reuses the (planner, nonce) of an      *)
(* accepted one is rejected and mints no token.                            *)
(***************************************************************************)
C15_NonceUniqueness ==
    [][ (IssueStep /\ <<last'.args.planner, last'.args.nonce>> \in accepted)
        => (last'.res # "ok" /\ ~Mints) ]_vars

\* the successful Issues for the key (e, a) in the window of window_size
\* seconds that ends at t: every successful Issue mints one token
IssuedInWindow(e, a, t) ==
    { id \in DOMAIN TOKENS :
        /\ TOKENS[id].executorId = e
        /\ TOKENS[id].actionId = a
        /\ TOKENS[id].issuedAt <= t
        /\ TOKENS[id].issuedAt + GLOBAL_RATE_LIMIT.window_size > t }

(***************************************************************************)
(* C16  P8, rate limit upper bound: for every key (executorId, actionId)   *)
(* and every time t, at most maxRequests Issues for the key succeeded in   *)
(* the rolling window of windowSize seconds ending at t, Issues at time 0  *)
(* included.                                                               *)
(***************************************************************************)
C16_RateLimitUpperBound ==
    \A e \in ExecutorIds, a \in ActionIds, t \in 0..now :
        Cardinality(IssuedInWindow(e, a, t)) <= GLOBAL_RATE_LIMIT.max_requests

(***************************************************************************)
(* C17  The rate limiter does not reject spuriously: an Issue fails with   *)
(* RateLimited only if at least maxRequests Issues for its key succeeded   *)
(* within the last windowSize seconds; timestamps older than that are      *)
(* pruned on the check and do not count.                                   *)
(***************************************************************************)
C17_NoSpuriousRateLimit ==
    [][ (IssueStep /\ last'.res = "RateLimited")
        => /\ Cardinality(IssuedInWindow(last'.args.executor_id,
                                         last'.args.action_id, now))
                >= GLOBAL_RATE_LIMIT.max_requests
           /\ ~Mints ]_vars

\* an Issue succeeded for a key whose earlier Issue had left the window
C17_Witness ==
    /\ last.op = "Issue"
    /\ last.res = "ok"
    /\ DOMAIN TOKENS = {1, 2}
    /\ TOKENS[1].issuedAt > 0
    /\ TOKENS[1].issuedAt + GLOBAL_RATE_LIMIT.window_size <= now
    /\ TOKENS[2].issuedAt = now
    /\ TOKENS[1].actionId = TOKENS[2].actionId
    /\ RATE_LIMIT_WINDOWS[<<1, TOKENS[2].actionId>>] = <<now>>

\* the breaker of the key of the Issue that has just answered, as it is stored
\* after the call
BreakerAfter ==
    load_or(CIRCUIT_BREAKERS',
            breaker_key(last'.args.executor_id, last'.args.action_id),
            default_breaker)

(***************************************************************************)
(* C18  P9, the breaker opens: after `threshold` consecutive failed Issue  *)
(* requests for a key (a rejection such as RateLimited is a failure) the   *)
(* breaker of the key is Open with nextAttemptTime = now + timeout.  With  *)
(* the threshold 1 this is after every failed Issue.                       *)
(***************************************************************************)
C18_BreakerOpens ==
    [][ (/\ IssueStep
         /\ last'.res = "RateLimited"
         /\ CIRCUIT_BREAKER_THRESHOLD = 1)
        => /\ BreakerAfter.state = "Open"
           /\ BreakerAfter.next_attempt_time = now + CIRCUIT_BREAKER_TIMEOUT ]_vars

\* the breaker of the key of the Issue that has just answered, as it was
\* stored before the call
BreakerBefore ==
    load_or(CIRCUIT_BREAKERS,
            breaker_key(last'.args.executor_id, last'.args.action_id),
            default_breaker)

\* while the breaker is Open: an Issue before nextAttemptTime fails with
\* CircuitBreakerOpen
OpenRejects ==
    [][ (IssueStep /\ BreakerBefore.state = "Open"
            /\ now < BreakerBefore.next_attempt_time)
        => (last'.res = "CircuitBreakerOpen" /\ ~Mints) ]_vars

\* leaving Open: the first Issue at nextAttemptTime or later moves the
\* breaker to HalfOpen with the count of successes reset, and its own success
\* is the first one counted
OpenToHalfOpen ==
    [][ (IssueStep /\ BreakerBefore.state = "Open"
            /\ now >= BreakerBefore.next_attempt_time /\ last'.res = "ok")
        => IF CIRCUIT_BREAKER_RECOVERY <= 1
           THEN BreakerAfter.state = "Closed"
           ELSE BreakerAfter.state = "HalfOpen" /\ BreakerAfter.success_count = 1 ]_vars

\* recovery: a success in HalfOpen closes the breaker, with both counts
\* reset, exactly when it is the `recovery`-th one
HalfOpenToClosed ==
    [][ (IssueStep /\ BreakerBefore.state = "HalfOpen" /\ last'.res = "ok")
        => IF BreakerBefore.success_count + 1 >= CIRCUIT_BREAKER_RECOVERY
           THEN /\ BreakerAfter.state = "Closed"
                /\ BreakerAfter.failure_count = 0
                /\ BreakerAfter.success_count = 0
           ELSE /\ BreakerAfter.state = "HalfOpen"
                /\ BreakerAfter.success_count = BreakerBefore.success_count + 1 ]_vars

\* a failure in HalfOpen moves the breaker back to Open
HalfOpenFailure ==
    [][ (IssueStep /\ BreakerBefore.state = "HalfOpen"
            /\ last'.res = "RateLimited")
        => BreakerAfter.state = "Open" ]_vars

C20_PausedIssueRejected ==
    [][ (IssueStep /\ EMERGENCY_PAUSED)
        => /\ last'.res = "ContractPaused"
           /\ UNCHANGED <<issuerVars, ansVars, reflexVars, inboxVars>> ]_vars

\* the Brake's Issue has been rejected by the paused Issuer
C20_Witness ==
    /\ EMERGENCY_PAUSED
    /\ last.op = "Issue"
    /\ last.sender = Brake
    /\ last.res = "ContractPaused"

\* C21: the emergency pause is reversible.  An EmergencyUnpause sent by the DAO
\* while the Issuer is paused succeeds and clears the pause flag.
C21_PauseReversible ==
    [][ (/\ last'.op = "EmergencyUnpause"
         /\ last'.sender = Dao
         /\ EMERGENCY_PAUSED)
        => /\ last'.res = "ok"
           /\ ~EMERGENCY_PAUSED' ]_vars

GovernanceOps ==
    {"SetReflexArc", "SetRateLimit", "SetCircuitBreakerParams",
     "EmergencyPause", "EmergencyUnpause"}

GovernanceStep == last'.op \in GovernanceOps

InWindow == last'.args.not_before <= now /\ now <= last'.args.not_after

\* C23: Issue succeeds only at notBefore <= now <= notAfter, both ends
\* included.  Outside the window an Issue that passes the pause and the
\* sender checks fails with IntentExpired, and no Issue outside the window
\* mints a token; IntentExpired is never the answer inside the window.
C23_IssueWindow ==
    [][ IssueStep
        => /\ last'.res = "ok" => InWindow
           /\ ~InWindow
                => /\ ~Mints
                   /\ (~EMERGENCY_PAUSED /\ last'.sender \in AUTHORIZED_EXECUTORS)
                        => last'.res = "IntentExpired"
           /\ last'.res = "IntentExpired" => ~InWindow ]_vars

\* an Issue at the last block time of its window has been accepted, where the
\* window does not start at 0
C23_Witness ==
    /\ last.op = "Issue"
    /\ last.res = "ok"
    /\ last.args.not_before > 0
    /\ now = last.args.not_after

\* the Revoke that has just answered, and the token it names
RevokeStep == last'.op = "Revoke"

RevokedId == last'.args.token_id

\* the token of the Revoke is stored and not revoked at the entry of the call
RevocableAtEntry == RevokedId \in DOMAIN TOKENS /\ ~TOKENS[RevokedId].revoked

\* the caller is the owner recorded at Issue or the registered Reflex Arc
RevokerAtEntry ==
    last'.sender = OWNERS[RevokedId] \/ last'.sender = REFLEX_ARC

RevokeAvailable ==
    [][ (RevokeStep /\ RevocableAtEntry /\ RevokerAtEntry)
        => /\ last'.res = "ok"
           /\ TOKENS'[RevokedId].revoked ]_vars

\* the rejections of Revoke
RevokeRejections ==
    [][ RevokeStep
        => last'.res \in {"ok", "TokenNotFound", "TokenAlreadyRevoked",
                          "UnauthorizedRevocation"} ]_vars

\* C25: a Revoke by the owner of the token or by the registered Reflex Arc, of
\* a stored and not yet revoked token, succeeds in every state of the Issuer,
\* the paused ones included, and TokenNotFound, TokenAlreadyRevoked and
\* UnauthorizedRevocation are the only rejections of Revoke.
C25_RevocationAlwaysAvailable ==
    /\ RevokeAvailable
    /\ RevokeRejections

\* a revoked token is never written again
RevokedOnce ==
    [][ \A t \in DOMAIN TOKENS :
            TOKENS[t].revoked => (t \in DOMAIN TOKENS' /\ TOKENS'[t] = TOKENS[t]) ]_vars

\* Revoke of an id that was never issued
RevokeOfUnknown ==
    [][ (RevokeStep /\ RevokedId \notin DOMAIN TOKENS)
        => /\ last'.res = "TokenNotFound"
           /\ TOKENS' = TOKENS ]_vars

\* Revoke of a revoked token, whoever sends it
RevokeOfRevoked ==
    [][ (RevokeStep /\ RevokedId \in DOMAIN TOKENS /\ TOKENS[RevokedId].revoked)
        => /\ last'.res = "TokenAlreadyRevoked"
           /\ TOKENS' = TOKENS ]_vars

\* C26: Revoke of a token id that was never issued fails with TokenNotFound,
\* Revoke of a revoked token fails with TokenAlreadyRevoked for every caller,
\* and neither changes a token record: a token is revoked at most once and its
\* revokedAt is never overwritten.
C26_RevokeRejections ==
    /\ RevokeOfUnknown
    /\ RevokeOfRevoked
    /\ RevokedOnce

\* C27: IsValid(tokenId) is true exactly when the token is stored, is not
\* revoked and expiresAt > now; it is false at now = expiresAt and false, not
\* an error, for an id that was never issued.
C27_IsValid ==
    last.op = "IsValid"
        => /\ last.res = "ok"
           /\ last.out.valid =
                (/\ last.args.token_id \in DOMAIN TOKENS
                 /\ ~TOKENS[last.args.token_id].revoked
                 /\ TOKENS[last.args.token_id].expiresAt > now)

\* IsValid has answered false for a token that is not revoked, at the block
\* time the token expires at
C27_Witness ==
    /\ last.op = "IsValid"
    /\ last.args.token_id \in DOMAIN TOKENS
    /\ ~TOKENS[last.args.token_id].revoked
    /\ TOKENS[last.args.token_id].expiresAt = now
    /\ ~last.out.valid

\* the PostAEP that has just been accepted
PostAEPAccepted == last'.op = "PostAEP" /\ last'.res = "ok"

\* C28: every accepted PostAEP persists the AEP and, in the same transaction,
\* sends OnAEP for the executor of the AEP to the Reflex Arc; no accepted
\* PostAEP completes without that message.
C28_PostAEPNotifiesReflex ==
    [][ PostAEPAccepted
        => /\ LATEST_AEP' # <<>>
           /\ LATEST_AEP'[1].executorId = last'.args.executor_id
           /\ inflight' # <<>>
           /\ Head(inflight').sender = InboxAddr
           /\ Head(inflight').msg.executor_id = last'.args.executor_id ]_vars

\* the Reflex Arc is in its cooldown at the entry of the call
Cooling == now < LAST_TRIGGER + REFLEX_COOLDOWN

\* the call has revoked nothing and has left the time of the last trigger
NoReflex ==
    /\ LAST_TRIGGER' = LAST_TRIGGER
    /\ TOKENS' = TOKENS
    /\ inflight' = <<>>

\* C29: while now < lastTrigger + reflex_cooldown, OnAEP from the Inbox
\* answers OK with action on_aep_cooldown and ManualTrigger fails with
\* InvalidInput, for every executor, and neither revokes a token nor changes
\* lastTrigger; lastTrigger changes only when a trigger fires.
C29_ReflexCooldown ==
    [][ /\ (last'.op = "OnAEP" /\ last'.sender = InboxAddr /\ Cooling)
            => /\ last'.res = "ok"
               /\ last'.out.action = "on_aep_cooldown"
               /\ NoReflex
        /\ (last'.op = "ManualTrigger" /\ Cooling)
            => /\ last'.res = "InvalidInput"
               /\ NoReflex
        /\ LAST_TRIGGER' # LAST_TRIGGER
            => /\ last'.op \in {"OnAEP", "ManualTrigger"}
               /\ last'.res = "ok"
               /\ last'.out.action \in {"reflex_triggered",
                                        "manual_reflex_triggered"}
               /\ ~Cooling
               /\ LAST_TRIGGER' = now ]_vars

\* an OnAEP from the Inbox has been answered with on_aep_cooldown after a
\* trigger has fired, while the Issuer holds a token
C29_Witness ==
    /\ last.op = "OnAEP"
    /\ last.res = "ok"
    /\ last.out.action = "on_aep_cooldown"
    /\ LAST_TRIGGER > 0
    /\ now < LAST_TRIGGER + REFLEX_COOLDOWN
    /\ DOMAIN TOKENS # {}

\* C30: LatestAEP(e) answers with the most recent accepted AEP posted for
\* executor e, and with none if none was accepted for e; an accepted PostAEP
\* for another executor does not change the answer for e.
C30_LatestAEPPerExecutor ==
    [][ PostAEPAccepted
        => \A e \in ExecutorIds :
              IF e = last'.args.executor_id
              THEN /\ query_latest_aep(e)' # <<>>
                   /\ query_latest_aep(e)'[1].executorId = e
                   /\ query_latest_aep(e)'[1].timestamp = now
              ELSE query_latest_aep(e)' = query_latest_aep(e) ]_vars

\* the PostAEP that has just answered
PostAEPStep == last'.op = "PostAEP"

\* C31: PostAEP from a caller that is not an authorized attestor fails with
\* UnauthorizedAttestor, PostAEP from an authorized caller with a hash that is
\* not 32 bytes long fails with InvalidInput, and a rejected PostAEP leaves
\* the stored AEP as it was and sends nothing to the Reflex Arc.
C31_PostAEPRejections ==
    [][ PostAEPStep
        => /\ last'.sender \notin AUTHORIZED_ATTESTORS
                => last'.res = "UnauthorizedAttestor"
           /\ (/\ last'.sender \in AUTHORIZED_ATTESTORS
               /\ \E i \in 1..4 : last'.args.hashes[i] # 32)
                => last'.res = "InvalidInput"
           /\ last'.res # "ok"
                => /\ LATEST_AEP' = LATEST_AEP
                   /\ inflight' = <<>> ]_vars

\* an attestor's PostAEP with a hash of 33 bytes has been rejected while an
\* AEP is stored
C31_Witness ==
    /\ last.op = "PostAEP"
    /\ last.sender \in AUTHORIZED_ATTESTORS
    /\ last.res = "InvalidInput"
    /\ \E i \in 1..4 : last.args.hashes[i] = 33
    /\ LATEST_AEP # <<>>

\* C32: SetAuthorizedAttestors is admin-gated.  Sent by a stranger, an address
\* that is neither the admin nor an attestor, it is rejected and the set of
\* attestors is unchanged.
C32_AttestorsAdminGated ==
    [][ (last'.op = "SetAuthorizedAttestors" /\ last'.sender = Mallory)
        => /\ last'.res # "ok"
           /\ AUTHORIZED_ATTESTORS' = AUTHORIZED_ATTESTORS ]_vars

\* C33: OnAEP sent by an address other than the registered Inbox fails with
\* Unauthorized, revokes no token and leaves lastTrigger unchanged, in and out
\* of the cooldown and for every outcome of the classifier.
C33_OnAEPInboxOnly ==
    [][ (last'.op = "OnAEP" /\ last'.sender # AFFerent_INBOX)
        => /\ last'.res = "Unauthorized"
           /\ NoReflex ]_vars

\* a stranger's OnAEP has been rejected outside the cooldown while the Issuer
\* holds a token
C33_Witness ==
    /\ last.op = "OnAEP"
    /\ last.sender = Mallory
    /\ last.res = "Unauthorized"
    /\ now >= LAST_TRIGGER + REFLEX_COOLDOWN
    /\ DOMAIN TOKENS # {}

\* C34: ManualTrigger is admin-only.  Sent by a stranger it is rejected,
\* revokes no token and does not update lastTrigger.
C34_ManualTriggerAdminOnly ==
    [][ (last'.op = "ManualTrigger" /\ last'.sender = Mallory)
        => /\ last'.res # "ok"
           /\ NoReflex ]_vars

\* the fields of a token record that are written at Issue
IssuedFields(t) ==
    <<t.tokenId, t.executorId, t.actionId, t.scaledLimitsHash, t.issuedAt,
      t.expiresAt>>

\* C35: a token record is never deleted, its tokenId, executorId, actionId,
\* scaledLimitsHash, issuedAt, expiresAt and owner never change, and revoked
\* only changes from false to true; a token for which IsValid is false is
\* not valid after any step.
C35_TokenPermanence ==
    [][ \A id \in DOMAIN TOKENS :
            /\ id \in DOMAIN TOKENS'
            /\ IssuedFields(TOKENS'[id]) = IssuedFields(TOKENS[id])
            /\ id \in DOMAIN OWNERS'
            /\ OWNERS'[id] = OWNERS[id]
            /\ TOKENS[id].revoked => TOKENS'[id].revoked
            /\ ~query_is_valid(id) => ~query_is_valid(id)' ]_vars

\* token 1 was revoked at an earlier block time and token 2 was issued
C35_Witness ==
    /\ 1 \in DOMAIN TOKENS
    /\ TOKENS[1].revoked
    /\ TOKENS[1].revokedAt < now
    /\ 2 \in DOMAIN TOKENS
    /\ TOKENS[2].issuedAt > TOKENS[1].revokedAt

C37_ActiveTokensExact ==
    \A e \in ExecutorIds :
        { query_active_tokens_of(e)[i] :
            i \in 1 .. Len(query_active_tokens_of(e)) }
          = { id \in DOMAIN TOKENS :
                /\ TOKENS[id].executorId = e
                /\ ~TOKENS[id].revoked
                /\ TOKENS[id].expiresAt > now }

\* C39: threshold invariant.  Instantiating the ANS State Manager succeeds
\* exactly for the thresholds with 0 < dangerThreshold < safeThreshold <= 10000
\* and fails with InvalidInput for every other pair, so that the thresholds
\* it saves satisfy the inequality.
C39_ThresholdInvariant ==
    last.op = "ans_state_manager::instantiate"
    => /\ last.res \in {"ok", "InvalidInput"}
       /\ last.res = "ok"
          <=> /\ 0 < last.args.danger_threshold
              /\ last.args.danger_threshold < last.args.safe_threshold
              /\ last.args.safe_threshold <= 10000
       /\ last.res = "ok"
          => /\ 0 < last.out.DANGER_THRESHOLD
             /\ last.out.DANGER_THRESHOLD < last.out.SAFE_THRESHOLD
             /\ last.out.SAFE_THRESHOLD <= 10000

\* an OnAEP call with its caller and executor fixed, whatever the classifier
\* answers
OnAEPCall(sender, executor_id) ==
    \E should_trigger \in BOOLEAN :
        execute_on_aep(sender, executor_id, should_trigger)

OnAEPOutcomes == {"on_aep_cooldown", "on_aep_no_trigger", "reflex_triggered"}

\* C38: the reflex classifier is deterministic.  From one state, at one
\* time, an OnAEP call by one caller for one executor has one outcome
\* (on_aep_cooldown, on_aep_no_trigger or reflex_triggered) and one resulting
\* lastTrigger: no two calls with the same inputs differ.
C38_ClassifierDeterministic ==
    \A sender \in {InboxAddr, Mallory}, e \in ExecutorIds :
        /\ \A a1 \in OnAEPOutcomes, a2 \in OnAEPOutcomes :
            ( /\ ENABLED ( /\ OnAEPCall(sender, e)
                           /\ last'.res = "ok"
                           /\ last'.out.action = a1 )
              /\ ENABLED ( /\ OnAEPCall(sender, e)
                           /\ last'.res = "ok"
                           /\ last'.out.action = a2 ) )
            => a1 = a2
        /\ \A t1 \in 0..MaxTime, t2 \in 0..MaxTime :
            ( /\ ENABLED (OnAEPCall(sender, e) /\ LAST_TRIGGER' = t1)
              /\ ENABLED (OnAEPCall(sender, e) /\ LAST_TRIGGER' = t2) )
            => t1 = t2

\* C40: the gateway's view agrees with the ledger.  For a token that the
\* gateway holds with the revoked flag and the expiry the ledger has,
\* is_token_valid(id, now) is the answer of IsValid(id), at every time,
\* now = expiresAt included.
C40_GatewayAgrees ==
    \A token_id \in DOMAIN TOKENS :
        \A e \in holders(active_tokens, token_id) :
            LET token == active_tokens[e][position(active_tokens[e], token_id)]
            IN  ( /\ token.revoked = TOKENS[token_id].revoked
                  /\ token.expires_at = TOKENS[token_id].expiresAt )
                => ( is_token_valid(active_tokens, token_id, now)
                     <=> query_is_valid(token_id) )

====
